---- MODULE Spec2Model ----
(***************************************************************************)
(* Model of the Cloudflare Workers KV driver (class WorkersKv): the facade *)
(* operations, bridge, funcArgHandlers and genReturnFromCfRes, together    *)
(* with the response classification of CfHttpFetch.fetch and the event     *)
(* routing of the monitoring device.                                       *)
(*                                                                         *)
(* Tri-state success values are the strings "true", "false" and "null"     *)
(* (isCfReqSuccess is boolean | null in the code; null is "uncertain").    *)
(***************************************************************************)
EXTENDS Integers, Sequences, FiniteSets, TLC

\* ------------------------------------------------------------------ bounds
MaxListeners == 2
MaxSubscribers == 1
MaxConcurrent == 2

\* the facade calls followed
Calls == {1}

\* ------------------------------------------------------- inputs of the model
\* HTTP status codes the stub transport answers with.
Statuses == {200, 400}

\* Response bodies the stub transport answers with.
\*   json    : the body is a JSON document
\*   success : the body's success field ("absent" when it has none)
\*   result  : the body's result field  ("absent", "null" or "value")
\*   errors  : the body's errors field  ("absent", "empty" or "list")
Bodies ==
    { [json |-> TRUE,  success |-> "true",   result |-> "value",  errors |-> "empty"],
      [json |-> TRUE,  success |-> "true",   result |-> "value",  errors |-> "list"],
      [json |-> TRUE,  success |-> "true",   result |-> "absent", errors |-> "empty"],
      [json |-> TRUE,  success |-> "false",  result |-> "null",   errors |-> "list"],
      [json |-> TRUE,  success |-> "false",  result |-> "absent", errors |-> "absent"],
      [json |-> TRUE,  success |-> "absent", result |-> "absent", errors |-> "absent"],
      [json |-> FALSE, success |-> "absent", result |-> "absent", errors |-> "absent"] }

NoBody == [json |-> FALSE, success |-> "none", result |-> "none", errors |-> "none"]

\* What a registered extension function does when it is called.
ListenerBehaviours == {"never", "always", "onResult"}

\* ------------------------------------------------------ facade operations
Ops == { "listNamespaces", "createNamespace", "removeNamespace", "renameNamespace",
         "listNamespaceKeys", "readKeyValuePair", "readKeyMeta",
         "writeKeyValuePair", "writeKeyValuePairMeta", "writeMultipleKeyValuePairs",
         "deleteKeyValuePair", "deleteMultipleKeyValuePairs" }

\* command.command of each operation
CommandLabel(op) ==
    CASE op = "listNamespaces"              -> "List Namespaces"
      [] op = "createNamespace"             -> "Create a namespace"
      [] op = "removeNamespace"             -> "Remove a namespace"
      [] op = "renameNamespace"             -> "Rename a namespace"
      [] op = "listNamespaceKeys"           -> "Lists a namespace's keys."
      [] op = "readKeyValuePair"            -> "Read key-value pair"
      [] op = "readKeyMeta"                 -> "Read the metadata for a key"
      [] op = "writeKeyValuePair"           -> "Write key-value pair"
      [] op = "writeKeyValuePairMeta"       -> "Write key-value pair with metadata"
      [] op = "writeMultipleKeyValuePairs"  -> "Write multiple key-value pairs"
      [] op = "deleteKeyValuePair"          -> "Delete key-value pair"
      [] op = "deleteMultipleKeyValuePairs" -> "Delete multiple key-value pairs"

\* command.commandType of each operation
CommandType(op) ==
    IF op \in {"listNamespaces", "createNamespace", "removeNamespace",
               "renameNamespace", "listNamespaceKeys"}
    THEN "namespace" ELSE "CRUD"

\* ValidateMethod with readKeyValuePair left on the default method
ValidateMethodDefaultForRead(op) ==
    CASE op \in {"removeNamespace", "renameNamespace", "writeKeyValuePair",
                 "writeKeyValuePairMeta", "writeMultipleKeyValuePairs",
                 "deleteMultipleKeyValuePairs"} -> "withoutResult"
      [] OTHER -> "full"

\* third argument of this.bridge(...) (default "full")
ValidateMethod(op) ==
    CASE op \in {"removeNamespace", "renameNamespace", "writeKeyValuePair",
                 "writeKeyValuePairMeta", "writeMultipleKeyValuePairs",
                 "deleteMultipleKeyValuePairs"} -> "withoutResult"
      [] op = "readKeyValuePair" -> "string"
      [] OTHER -> "full"

\* http.contentType of each operation
ContentType(op) ==
    CASE op \in {"createNamespace", "renameNamespace", "writeMultipleKeyValuePairs",
                 "deleteMultipleKeyValuePairs"} -> "json"
      [] op = "writeKeyValuePair" -> "plainText"
      [] op = "writeKeyValuePairMeta" -> "formData"
      [] OTHER -> "none"

\* first argument of genReturnFromCfRes ("custom" for listNamespaceKeys)
ReturnMethod(op) ==
    CASE op \in {"listNamespaces", "createNamespace", "readKeyMeta"} -> "fullResult"
      [] op = "readKeyValuePair" -> "string"
      [] op = "listNamespaceKeys" -> "custom"
      [] OTHER -> "boolean"

\* the urlParam argument of the two single-pair write operations: undefined,
\* {}, or an object with expiration, with expiration_ttl, or with both
UrlParams == {"undefined", "empty", "expiration", "expiration_ttl", "both"}

\* the operations whose urlParam carries expiration and expiration_ttl
TakesExpiry(op) == op \in {"writeKeyValuePair", "writeKeyValuePairMeta"}

\* the urlParam values followed for an operation ("none": not followed)
UrlParamsOf(op) == IF TakesExpiry(op) THEN UrlParams ELSE {"none"}

\* urlParam !== undefined && urlParam.expiration !== undefined
\*   && urlParam.expiration_ttl !== undefined: customLog.warning(...) is called
WarnsBoth(urlParam) == urlParam = "both"

\* ParamsForwarded dropping expiration when expiration_ttl is given as well
ParamsForwardedPrefersTtl(op, urlParam) ==
    CASE urlParam = "both" -> "expiration_ttl"
      [] op = "writeKeyValuePair" /\ urlParam = "undefined" -> "empty"
      [] op = "writeKeyValuePairMeta" /\ urlParam = "undefined" -> "null"
      [] OTHER -> urlParam

\* http.params handed to bridge: urlParam || {} in writeKeyValuePair,
\* urlParam || null in writeKeyValuePairMeta
ParamsForwarded(op, urlParam) ==
    CASE op = "writeKeyValuePair" /\ urlParam = "undefined" -> "empty"
      [] op = "writeKeyValuePairMeta" /\ urlParam = "undefined" -> "null"
      [] OTHER -> urlParam

\* a BridgeCommand kept in one place shared by all calls
CommandShared(op, c) ==
    [commandType |-> CommandType(op), command |-> CommandLabel(op), call |-> 1]

\* the BridgeCommand the facade builds for call c
Command(op, c) ==
    [commandType |-> CommandType(op), command |-> CommandLabel(op), call |-> c]

NoCommand == [commandType |-> "none", command |-> "none", call |-> 0]

\* ------------------------------------------- CfHttpFetch (fetch-and-classify)
\* codes in [200,300) are the success codes
StatusOk(status) == status >= 200 /\ status < 300

BoolStr(b) == IF b THEN "true" ELSE "false"

\* The third constructor argument of CfHttpFetch as an earlier version of
\* bridge passed it: the per-operation method, whatever the flag says.
HandedModeIgnoringFlag(isValidate, method) == method

\* The same with the flag negated: !this.isValidateCfResponse && method.
HandedModeNegated(isValidate, method) == IF ~isValidate THEN method ELSE "false"

\* The third constructor argument of CfHttpFetch:
\*   this.isValidateCfResponse && validateCfResponseMethod
\* (the JavaScript value false is the string "false" here).
HandedMode(isValidate, method) == IF isValidate THEN method ELSE "false"

\* integrity validation is enabled for a call unless the mode handed is false
IntegrityEnabled(mode) == mode # "false"

\* the body parses and exposes a boolean success field
HasBodySuccess(mode, body) ==
    mode # "string" /\ body.json /\ body.success \in {"true", "false"}

\* Classify taking a body without a success field for a failure
ClassifyBodylessFails(mode, status, body) ==
    IF ~HasBodySuccess(mode, body) THEN "false"
    ELSE IF IntegrityEnabled(mode) /\ body.success # BoolStr(StatusOk(status))
         THEN "null"
         ELSE body.success

\* isCfReqSuccess of the result
Classify(mode, status, body) ==
    IF ~HasBodySuccess(mode, body) THEN BoolStr(StatusOk(status))
    ELSE IF IntegrityEnabled(mode) /\ body.success # BoolStr(StatusOk(status))
         THEN "null"
         ELSE body.success

\* cfError of the result: the body's errors field when present, otherwise null
ServiceError(mode, body) ==
    IF mode # "string" /\ body.json /\ body.errors \in {"empty", "list"}
    THEN body.errors ELSE "null"

\* NormalChoices demanding a result field of the "withoutResult" envelope too
NormalChoicesResultRequired(mode, body) ==
    CASE mode = "string" -> {TRUE}
      [] mode = "full" ->
            {body.json /\ body.success # "absent" /\ body.result # "absent"
                       /\ body.errors # "absent"}
      [] mode = "withoutResult" ->
            {body.json /\ body.success # "absent" /\ body.result # "absent"
                       /\ body.errors # "absent"}
      [] OTHER -> BOOLEAN

\* the values isCfNormal can take: did the body match the shape of the mode
NormalChoices(mode, body) ==
    CASE mode = "string" -> {TRUE}
      [] mode = "full" ->
            {body.json /\ body.success # "absent" /\ body.result # "absent"
                       /\ body.errors # "absent"}
      [] mode = "withoutResult" ->
            {body.json /\ body.success # "absent" /\ body.errors # "absent"}
      [] OTHER -> BOOLEAN

\* the values cfRes can take: "object" (parsed JSON), "string" (raw text), "null"
ParsedChoices(mode, body) ==
    CASE mode = "string" -> {"string"}
      [] body.json -> {"object"}
      [] OTHER -> {"string", "null"}

\* the OwnFetchResponse that fetch() resolves to for call c
FetchResult(c, mode, status, body, normal, parsed) ==
    [isNull |-> FALSE, req |-> c,
     isCfNormal |-> normal,
     isCfReqSuccess |-> Classify(mode, status, body),
     cfError |-> ServiceError(mode, body),
     status |-> status, body |-> body, cfRes |-> parsed]

\* the null handed to the listeners in place of a result
NullResult ==
    [isNull |-> TRUE, req |-> 0, isCfNormal |-> FALSE, isCfReqSuccess |-> "none",
     cfError |-> "none", status |-> 0, body |-> NoBody, cfRes |-> "none"]

\* serializing the body of this content kind can fail
CanFailToSerialize(op) == ContentType(op) # "none"

\* ------------------------------------------------------------ error values
\* kind: what was thrown; listener: the extension function that threw it;
\* title, detail: name and errDetail of a WorkersKvError
TransportError ==
    [kind |-> "TransportError", listener |-> 0, title |-> "none", detail |-> "none"]
SerializationError ==
    [kind |-> "SerializationError", listener |-> 0, title |-> "none", detail |-> "none"]
MetadataError ==
    [kind |-> "MetadataError", listener |-> 0, title |-> "none", detail |-> "none"]
ListenerError(i) ==
    [kind |-> "ListenerError", listener |-> i, title |-> "none", detail |-> "none"]
TypeError ==
    [kind |-> "TypeError", listener |-> 0, title |-> "none", detail |-> "none"]
WorkersKvError(title, detail) ==
    [kind |-> "WorkersKvError", listener |-> 0, title |-> title, detail |-> detail]
NoError ==
    [kind |-> "none", listener |-> 0, title |-> "none", detail |-> "none"]

\* errDetail values: the result's cfError, or serializeError(err), or null
CfDetail(cfError) == [src |-> "cfError", val |-> cfError, err |-> NoError]
serializeError(err) == [src |-> "serialized", val |-> "plain", err |-> err]
NoDetail == [src |-> "none", val |-> "none", err |-> NoError]

\* ------------------------------------------------------------- constructor
\* what a caller can pass for a credential: undefined, null or a string
CredValues == {"undefined", "null", "text"}

\* the credentials before any instance exists
NoAuth == [accountId |-> "unset", globalApiKey |-> "unset", accountEmail |-> "unset"]
NoArgs == [accountId |-> "none", globalApiKey |-> "none", accountEmail |-> "none"]

\* the constructor's test with the e-mail left out
MissingAuthIgnoresEmail(accountEmail, accountId, globalApiKey) ==
    \/ accountId = "undefined"
    \/ globalApiKey = "undefined"

\* accountId === undefined || globalApiKey === undefined || accountEmail == undefined
\* (the loose == also holds for null)
MissingAuth(accountEmail, accountId, globalApiKey) ==
    \/ accountId = "undefined"
    \/ globalApiKey = "undefined"
    \/ accountEmail \in {"undefined", "null"}

\* isValidateCfResponse: boolean = true (the default applies to undefined)
ValidateDefault(arg) == IF arg = "undefined" THEN TRUE ELSE arg = "true"

\* an instance built with three strings
DefinedAuth == [accountId |-> "text", globalApiKey |-> "text", accountEmail |-> "text"]
Made == [state |-> "yes", args |-> DefinedAuth, err |-> NoError]
NotMade == [state |-> "no", args |-> NoArgs, err |-> NoError]

\* ------------------------------------------------------------------- state
VARIABLES
    cfAuth,                 \* this.cfAuth: accountId, globalApiKey, accountEmail
    constructed,            \* what new WorkersKv(...) was called with and how it ended
    isValidateCfResponse,   \* this.isValidateCfResponse
    extensionArg,           \* this.extensionArg: the registered functions, in order
    calls,                  \* the facade calls: position, inputs, outcome and log
    subscribers,            \* the monitor's stream listeners, in order of registration
    received,               \* the event messages each stream listener was called with
    emitted                 \* how many events the monitor has emitted so far

vars == <<cfAuth, constructed, isValidateCfResponse, extensionArg, calls,
          subscribers, received, emitted>>

\* the state of the monitoring device
monitorVars == <<subscribers, received, emitted>>

\* One entry of a call's log: a listener invocation with its four arguments
\* (and what it threw), the HTTP request leaving, bridge returning or throwing.
LogListener(i, ps, cmd, res, det, err) ==
    [ev |-> "listener", i |-> i, ps |-> ps, cmd |-> cmd, res |-> res,
     det |-> det, err |-> err]
LogRequest(cmd) ==
    [ev |-> "request", i |-> 0, ps |-> "none", cmd |-> cmd, res |-> NullResult,
     det |-> NoDetail, err |-> NoError]
LogReturn(cmd, res) ==
    [ev |-> "return", i |-> 0, ps |-> "none", cmd |-> cmd, res |-> res,
     det |-> NoDetail, err |-> NoError]
LogThrow(cmd, err) ==
    [ev |-> "throw", i |-> 0, ps |-> "none", cmd |-> cmd, res |-> NullResult,
     det |-> NoDetail, err |-> err]

\* a call that has not been made yet
IdleCall ==
    [pc |-> "idle", op |-> "none", command |-> NoCommand, mode |-> "none",
     urlParam |-> "none", warned |-> FALSE, params |-> "none",
     httpSent |-> 0, outcome |-> "none", fetched |-> NullResult,
     log |-> <<>>, res |-> NullResult, err |-> NoError, ret |-> "none"]

\* --------------------------------------------------------- funcArgHandlers
\* the extension function with this behaviour throws when handed this result
Throws(behaviour, res) ==
    \/ behaviour = "always"
    \/ behaviour = "onResult" /\ ~res.isNull

\* index of the first extension function that throws, 0 when none does
FirstThrower(ext, res) ==
    IF \E i \in 1..Len(ext) : Throws(ext[i], res)
    THEN CHOOSE i \in 1..Len(ext) :
            /\ Throws(ext[i], res)
            /\ \A j \in 1..(i - 1) : ~Throws(ext[j], res)
    ELSE 0

\* funcArgHandlers handing the result to the first extension function only
funcArgHandlersResultToFirstOnly(ext, processSuccess, command, cfFetchRes, errDetail) ==
    LET t == FirstThrower(ext, cfFetchRes)
        last == IF t = 0 THEN Len(ext) ELSE t
    IN  [inv |-> [i \in 1..last |->
                    LogListener(i, processSuccess, command,
                                IF i = 1 THEN cfFetchRes ELSE NullResult, errDetail,
                                IF i = t THEN ListenerError(i) ELSE NoError)],
         threw |-> t]

\* for (const func of this.extensionArg) func(processSuccess, command, cfFetchRes, errDetail)
\* inv: the invocations made, in order; threw: the function whose exception
\* ended the loop (0 when the loop ran to its end)
funcArgHandlers(ext, processSuccess, command, cfFetchRes, errDetail) ==
    LET t == FirstThrower(ext, cfFetchRes)
        last == IF t = 0 THEN Len(ext) ELSE t
    IN  [inv |-> [i \in 1..last |->
                    LogListener(i, processSuccess, command, cfFetchRes, errDetail,
                                IF i = t THEN ListenerError(i) ELSE NoError)],
         threw |-> t]

\* ------------------------------------------------------------------ bridge
\* BridgeCatch reporting success to the extension functions
BridgeCatchIndicatesSuccess(ext, command, err, logSoFar) ==
    LET n == funcArgHandlers(ext, "true", command, NullResult, serializeError(err))
        thrown == IF n.threw = 0 THEN err ELSE ListenerError(n.threw)
    IN  [pc |-> "rejected", res |-> NullResult, err |-> thrown,
         log |-> logSoFar \o n.inv \o <<LogThrow(command, thrown)>>]

\* BridgeCatch that issues the request a second time before giving up
BridgeCatchRetries(ext, command, err, logSoFar) ==
    LET n == funcArgHandlers(ext, "false", command, NullResult, serializeError(err))
        thrown == IF n.threw = 0 THEN err ELSE ListenerError(n.threw)
    IN  [pc |-> "rejected", res |-> NullResult, err |-> thrown,
         log |-> logSoFar \o <<LogRequest(command)>> \o n.inv
                    \o <<LogThrow(command, thrown)>>]

\* BridgeCatch that re-throws without notifying the extension functions
BridgeCatchSilent(ext, command, err, logSoFar) ==
    [pc |-> "rejected", res |-> NullResult, err |-> err,
     log |-> logSoFar \o <<LogThrow(command, err)>>]

\* catch (err) { this.funcArgHandlers(false, command, null, serializeError(err)); throw err }
BridgeCatch(ext, command, err, logSoFar) ==
    LET n == funcArgHandlers(ext, "false", command, NullResult, serializeError(err))
        thrown == IF n.threw = 0 THEN err ELSE ListenerError(n.threw)
    IN  [pc |-> "rejected", res |-> NullResult, err |-> thrown,
         log |-> logSoFar \o n.inv \o <<LogThrow(command, thrown)>>]

\* BridgeTry handing the result back before the extension functions are called
BridgeTryReturnsFirst(ext, command, cfFetch, logSoFar) ==
    LET n == funcArgHandlers(ext, cfFetch.isCfReqSuccess, command, cfFetch,
                             CfDetail(cfFetch.cfError))
    IN  [pc |-> "returned", res |-> cfFetch, err |-> NoError,
         log |-> logSoFar \o <<LogReturn(command, cfFetch)>> \o n.inv]

\* the try block after fetch() has resolved to cfFetch
BridgeTry(ext, command, cfFetch, logSoFar) ==
    LET n == funcArgHandlers(ext, cfFetch.isCfReqSuccess, command, cfFetch,
                             CfDetail(cfFetch.cfError))
    IN  IF n.threw = 0
        THEN [pc |-> "returned", res |-> cfFetch, err |-> NoError,
              log |-> logSoFar \o n.inv \o <<LogReturn(command, cfFetch)>>]
        ELSE BridgeCatch(ext, command, ListenerError(n.threw), logSoFar \o n.inv)

\* ------------------------------------------------------ genReturnFromCfRes
\* JavaScript truthiness of cfError: null is falsy, every array is truthy
Truthy(cfError) == cfError # "null"

\* genReturnFromCfRes without its two throwing branches
genReturnFromCfResNeverThrows(method, req) ==
    CASE method = "boolean" -> [ret |-> req.isCfReqSuccess, err |-> NoError]
      [] method = "string" -> [ret |-> "cfRes", err |-> NoError]
      [] method = "fullResult" ->
            IF req.cfRes = "null"
            THEN [ret |-> "none", err |-> TypeError]
            ELSE [ret |-> "result", err |-> NoError]

\* what genReturnFromCfRes does: ret is the value returned, err the error thrown
genReturnFromCfRes(method, req) ==
    CASE req.isCfReqSuccess = "false" ->
            [ret |-> "none",
             err |-> WorkersKvError("Failed", IF Truthy(req.cfError) THEN "cfError" ELSE "http")]
      [] req.isCfReqSuccess = "null" ->
            [ret |-> "none",
             err |-> WorkersKvError("Uncertain", IF Truthy(req.cfError) THEN "cfError" ELSE "http")]
      [] OTHER ->
            CASE method = "boolean" -> [ret |-> req.isCfReqSuccess, err |-> NoError]
              [] method = "string" -> [ret |-> "cfRes", err |-> NoError]
              [] method = "fullResult" ->
                    IF req.cfRes = "null"
                    THEN [ret |-> "none", err |-> TypeError]
                    ELSE [ret |-> "result", err |-> NoError]

\* the tail of listNamespaceKeys, which does not use genReturnFromCfRes
listNamespaceKeysReturn(req) ==
    IF req.cfRes = "null" THEN [ret |-> "none", err |-> TypeError]
    ELSE IF req.isCfReqSuccess = "true"
         THEN [ret |-> "response", err |-> NoError]
         ELSE [ret |-> "none",
               err |-> WorkersKvError("Failed",
                          IF req.body.errors \in {"empty", "list"}
                          THEN "cfError" ELSE "undefined")]

FacadeReturn(op, req) ==
    IF ReturnMethod(op) = "custom" THEN listNamespaceKeysReturn(req)
    ELSE genReturnFromCfRes(ReturnMethod(op), req)

\* ------------------------------------------------- the monitoring device
\* the event kind the notifier computes from the result it is handed
EventKind(res) ==
    IF res.isNull THEN "err"
    ELSE CASE res.isCfReqSuccess = "true" -> "success"
           [] res.isCfReqSuccess = "false" -> "err"
           [] OTHER -> "unknown"

\* the event kind that corresponds to the success indicator (first argument)
KindOfIndicator(ps) ==
    CASE ps = "true" -> "success"
      [] ps = "false" -> "err"
      [] OTHER -> "unknown"

\* the extension functions that may be registered when the monitoring
\* device's dbListener can be one of them ("monitor" never throws)
MonitorBehaviours == ListenerBehaviours \cup {"monitor"}

\* the event kinds a stream listener can be registered for
Kinds == {"success", "err", "unknown"}

\* the invocations of the monitor's dbListener among these log entries
MonitorEvents(ext, entries) ==
    SelectSeq(entries, LAMBDA e : e.ev = "listener" /\ ext[e.i] = "monitor")

\* the event messages the monitor emits for these log entries, numbered on
\* from the count emitted so far
Messages(ext, entries, count) ==
    LET evs == MonitorEvents(ext, entries)
    IN  [k \in 1..Len(evs) |->
            [no |-> count + k, kind |-> EventKind(evs[k].res),
             action |-> evs[k].cmd, cfResponse |-> evs[k].res]]

\* emit(kind, msg): every stream listener registered for the kind of a
\* message is called with it; nothing is kept for later listeners
Emit(entries) ==
    LET msgs == Messages(extensionArg, entries, emitted)
    IN  /\ received' = [s \in DOMAIN received |->
                received[s] \o SelectSeq(msgs, LAMBDA m : m.kind = subscribers[s].kind)]
        /\ emitted' = emitted + Len(msgs)
        /\ UNCHANGED subscribers

\* the entries of newLog that come after oldLog
Appended(oldLog, newLog) == SubSeq(newLog, Len(oldLog) + 1, Len(newLog))

\* ----------------------------------------------------------------- actions
\* new WorkersKv(accountEmail, accountId, globalApiKey, isValidateCfResponse, ...extensionArg)
Init ==
    /\ cfAuth = DefinedAuth
    /\ constructed = Made
    /\ isValidateCfResponse \in BOOLEAN
    /\ extensionArg \in UNION { [1..n -> ListenerBehaviours] : n \in 0..MaxListeners }
    /\ calls = [c \in Calls |-> IdleCall]
    /\ subscribers = <<>>
    /\ received = <<>>
    /\ emitted = 0

\* A facade operation is called: it builds its command and calls bridge, which
\* constructs CfHttpFetch and starts fetch(); the HTTP request leaves.
Invoke(c, op) ==
    /\ constructed.state = "yes"
    /\ calls[c].pc = "idle"
    /\ \E u \in UrlParamsOf(op) :
          calls' = [calls EXCEPT ![c] =
            [@ EXCEPT !.pc = "sent", !.op = op, !.command = Command(op, c),
                      !.mode = HandedMode(isValidateCfResponse, ValidateMethod(op)),
                      !.urlParam = u, !.warned = WarnsBoth(u),
                      !.params = ParamsForwarded(op, u),
                      !.httpSent = @ + 1,
                      !.log = <<LogRequest(Command(op, c))>>]]
    /\ UNCHANGED <<cfAuth, constructed, isValidateCfResponse, extensionArg, monitorVars>>

\* A facade operation is called with a body that cannot be serialized for its
\* content kind: the error is thrown inside bridge's try block before the
\* request leaves, and bridge's catch handles it.
InvokeSerializationFails(c, op) ==
    /\ constructed.state = "yes"
    /\ calls[c].pc = "idle"
    /\ CanFailToSerialize(op)
    /\ LET b == BridgeCatch(extensionArg, Command(op, c), SerializationError, <<>>)
       IN  /\ Emit(Appended(calls[c].log, b.log))
           /\ \E u \in UrlParamsOf(op) :
                calls' = [calls EXCEPT ![c] =
                [@ EXCEPT !.pc = b.pc, !.op = op, !.command = Command(op, c),
                          !.mode = HandedMode(isValidateCfResponse, ValidateMethod(op)),
                          !.urlParam = u, !.warned = WarnsBoth(u),
                          !.params = ParamsForwarded(op, u),
                          !.outcome = "serialization",
                          !.log = b.log, !.res = b.res, !.err = b.err]]
    /\ UNCHANGED <<cfAuth, constructed, isValidateCfResponse, extensionArg>>

\* writeKeyValuePairMeta is called with metadata that JSON.stringify rejects:
\* the facade throws before it builds the command or calls bridge.
InvokeMetadataFails(c) ==
    /\ constructed.state = "yes"
    /\ calls[c].pc = "idle"
    /\ \E u \in UrlParams :
          calls' = [calls EXCEPT ![c] =
            [@ EXCEPT !.pc = "failed", !.op = "writeKeyValuePairMeta",
                      !.urlParam = u, !.warned = WarnsBoth(u),
                      !.outcome = "metadata", !.err = MetadataError]]
    /\ UNCHANGED <<cfAuth, constructed, isValidateCfResponse, extensionArg, monitorVars>>

\* The transport answers: fetch() classifies the response and resolves, and
\* bridge notifies the extension functions and returns (or ends in its catch).
Respond(c, status, body, normal, parsed) ==
    /\ calls[c].pc = "sent"
    /\ normal \in NormalChoices(calls[c].mode, body)
    /\ parsed \in ParsedChoices(calls[c].mode, body)
    /\ LET cfFetch == FetchResult(c, calls[c].mode, status, body, normal, parsed)
           b == BridgeTry(extensionArg, calls[c].command, cfFetch, calls[c].log)
       IN  /\ Emit(Appended(calls[c].log, b.log))
           /\ calls' = [calls EXCEPT ![c] =
                [@ EXCEPT !.pc = b.pc, !.outcome = "response", !.fetched = cfFetch,
                          !.log = b.log, !.res = b.res, !.err = b.err]]
    /\ UNCHANGED <<cfAuth, constructed, isValidateCfResponse, extensionArg>>

\* TransportFails with the failure also arriving after fetch() has resolved
TransportFailsAfterAnswer(c) ==
    /\ calls[c].pc \in {"sent", "returned"}
    /\ LET b == BridgeCatch(extensionArg, calls[c].command, TransportError, calls[c].log)
       IN  /\ Emit(Appended(calls[c].log, b.log))
           /\ calls' = [calls EXCEPT ![c] =
                [@ EXCEPT !.pc = b.pc, !.outcome = "transport",
                          !.log = b.log, !.res = b.res, !.err = b.err]]
    /\ UNCHANGED <<cfAuth, constructed, isValidateCfResponse, extensionArg>>

\* The transport throws (connection reset, DNS, timeout): fetch() rejects and
\* bridge's catch notifies the extension functions and throws.
TransportFails(c) ==
    /\ calls[c].pc = "sent"
    /\ LET b == BridgeCatch(extensionArg, calls[c].command, TransportError, calls[c].log)
       IN  /\ Emit(Appended(calls[c].log, b.log))
           /\ calls' = [calls EXCEPT ![c] =
                [@ EXCEPT !.pc = b.pc, !.outcome = "transport",
                          !.log = b.log, !.res = b.res, !.err = b.err]]
    /\ UNCHANGED <<cfAuth, constructed, isValidateCfResponse, extensionArg>>

\* FacadeResumes on an instance whose operations unregister the last function
FacadeResumesUnregisters(c) ==
    /\ calls[c].pc = "returned"
    /\ LET f == FacadeReturn(calls[c].op, calls[c].res)
       IN  calls' = [calls EXCEPT ![c] =
            [@ EXCEPT !.pc = IF f.err = NoError THEN "done" ELSE "failed",
                      !.ret = f.ret, !.err = f.err]]
    /\ extensionArg' = SubSeq(extensionArg, 1, Len(extensionArg) - 1)
    /\ UNCHANGED <<cfAuth, constructed, isValidateCfResponse, monitorVars>>

\* bridge returned a result: the facade maps it to its return value or throws
FacadeResumes(c) ==
    /\ calls[c].pc = "returned"
    /\ LET f == FacadeReturn(calls[c].op, calls[c].res)
       IN  calls' = [calls EXCEPT ![c] =
            [@ EXCEPT !.pc = IF f.err = NoError THEN "done" ELSE "failed",
                      !.ret = f.ret, !.err = f.err]]
    /\ UNCHANGED <<cfAuth, constructed, isValidateCfResponse, extensionArg, monitorVars>>

\* bridge threw: the facade's await throws the same error to the caller
FacadeRejects(c) ==
    /\ calls[c].pc = "rejected"
    /\ calls' = [calls EXCEPT ![c] = [@ EXCEPT !.pc = "failed"]]
    /\ UNCHANGED <<cfAuth, constructed, isValidateCfResponse, extensionArg, monitorVars>>

Next ==
    \/ \E c \in Calls, op \in Ops : Invoke(c, op)
    \/ \E c \in Calls, op \in Ops : InvokeSerializationFails(c, op)
    \/ \E c \in Calls : InvokeMetadataFails(c)
    \/ \E c \in Calls, status \in Statuses, body \in Bodies,
          normal \in BOOLEAN, parsed \in {"object", "string", "null"} :
            Respond(c, status, body, normal, parsed)
    \/ \E c \in Calls : TransportFails(c)
    \/ \E c \in Calls : FacadeResumes(c)
    \/ \E c \in Calls : FacadeRejects(c)

Spec == Init /\ [][Next]_vars

\* -------------------------------------- the driver with its monitoring device
\* new WorkersKv(..., kvMonitor.dbListener.bind(kvMonitor), ...): the monitor's
\* dbListener may be among the extension functions
InitMonitor ==
    /\ cfAuth = DefinedAuth
    /\ constructed = Made
    /\ isValidateCfResponse \in BOOLEAN
    /\ extensionArg \in UNION { [1..n -> MonitorBehaviours] : n \in 0..MaxListeners }
    /\ calls = [c \in Calls |-> IdleCall]
    /\ subscribers = <<>>
    /\ received = <<>>
    /\ emitted = 0

\* a registration that hands the new stream listener the events of its kind
\* that call 1 has already produced
SubscribeReplays(kind) ==
    /\ Len(subscribers) < MaxSubscribers
    /\ subscribers' = Append(subscribers, [kind |-> kind, since |-> emitted])
    /\ received' = Append(received,
            SelectSeq(Messages(extensionArg, calls[1].log, 0),
                      LAMBDA m : m.kind = kind))
    /\ UNCHANGED <<cfAuth, constructed, isValidateCfResponse, extensionArg, calls, emitted>>

\* kvMonitor.dbMonitorStream().on(kind, listener): a stream listener is
\* registered; since is the number of events emitted before it
Subscribe(kind) ==
    /\ Len(subscribers) < MaxSubscribers
    /\ subscribers' = Append(subscribers, [kind |-> kind, since |-> emitted])
    /\ received' = Append(received, <<>>)
    /\ UNCHANGED <<cfAuth, constructed, isValidateCfResponse, extensionArg, calls, emitted>>

\* the operations followed while stream listeners come and go
MonitorOps == {"renameNamespace", "listNamespaceKeys"}

NextMonitor ==
    \/ \E c \in Calls, op \in MonitorOps : Invoke(c, op)
    \/ \E c \in Calls, op \in MonitorOps : InvokeSerializationFails(c, op)
    \/ \E c \in Calls, status \in Statuses, body \in Bodies,
          normal \in BOOLEAN, parsed \in {"object", "string", "null"} :
            Respond(c, status, body, normal, parsed)
    \/ \E c \in Calls : TransportFails(c)
    \/ \E c \in Calls : FacadeResumes(c)
    \/ \E c \in Calls : FacadeRejects(c)
    \/ \E kind \in Kinds : Subscribe(kind)

SpecMonitor == InitMonitor /\ [][NextMonitor]_vars

\* --------------------------------------------- the driver from its construction
InitConstruct ==
    /\ cfAuth = NoAuth
    /\ constructed = NotMade
    /\ isValidateCfResponse = TRUE
    /\ extensionArg = <<>>
    /\ calls = [c \in Calls |-> IdleCall]
    /\ subscribers = <<>>
    /\ received = <<>>
    /\ emitted = 0

\* new WorkersKv(accountEmail, accountId, globalApiKey, isValidate, ...ext)
Construct(accountEmail, accountId, globalApiKey, isValidate, ext) ==
    /\ constructed.state = "no"
    /\ LET args == [accountId |-> accountId, globalApiKey |-> globalApiKey,
                    accountEmail |-> accountEmail]
       IN  IF MissingAuth(accountEmail, accountId, globalApiKey)
           THEN /\ constructed' =
                     [state |-> "threw", args |-> args,
                      err |-> WorkersKvError("Missing Critical Authentication Info", "null")]
                /\ UNCHANGED <<cfAuth, isValidateCfResponse, extensionArg>>
           ELSE /\ cfAuth' = args
                /\ extensionArg' = ext
                /\ isValidateCfResponse' = ValidateDefault(isValidate)
                /\ constructed' = [state |-> "yes", args |-> args, err |-> NoError]
    /\ UNCHANGED <<calls, monitorVars>>

\* the values tried for the first credential: none once new has been called
CredChoices == IF constructed.state = "no" THEN CredValues ELSE {}

\* the constructor runs once; the operations are methods of the instance
NextConstruct ==
    \/ \E accountEmail \in CredChoices, accountId \in CredValues,
          globalApiKey \in CredValues, isValidate \in {"undefined", "true", "false"},
          ext \in UNION { [1..n -> ListenerBehaviours] : n \in 0..MaxListeners } :
            Construct(accountEmail, accountId, globalApiKey, isValidate, ext)
    \/ Next

SpecConstruct == InitConstruct /\ [][NextConstruct]_vars

\* ------------------------------------- several calls in flight on one instance
\* the calls a caller issues without awaiting the earlier ones
ConcCalls == 1..MaxConcurrent

\* the operations and the responses followed when calls overlap
ConcOps == {"renameNamespace", "readKeyValuePair"}
ConcStatuses == {200}
ConcBehaviours == {"never", "always"}
ConcBodies ==
    { [json |-> TRUE, success |-> "true",  result |-> "value", errors |-> "empty"],
      [json |-> TRUE, success |-> "false", result |-> "null",  errors |-> "list"] }

\* an instance with the default isValidateCfResponse (true)
InitConc ==
    /\ cfAuth = DefinedAuth
    /\ constructed = Made
    /\ isValidateCfResponse = TRUE
    /\ extensionArg \in UNION { [1..n -> ConcBehaviours] : n \in 0..MaxListeners }
    /\ calls = [c \in ConcCalls |-> IdleCall]
    /\ subscribers = <<>>
    /\ received = <<>>
    /\ emitted = 0

\* Every step runs to completion before another starts (one JavaScript
\* thread); the calls interleave at their awaits.
NextConc ==
    \/ \E c \in ConcCalls, op \in ConcOps : Invoke(c, op)
    \/ \E c \in ConcCalls, op \in ConcOps : InvokeSerializationFails(c, op)
    \/ \E c \in ConcCalls, status \in ConcStatuses, body \in ConcBodies,
          normal \in BOOLEAN, parsed \in {"object", "string", "null"} :
            Respond(c, status, body, normal, parsed)
    \/ \E c \in ConcCalls : TransportFails(c)
    \/ \E c \in ConcCalls : FacadeResumes(c)
    \/ \E c \in ConcCalls : FacadeRejects(c)

SpecConc == InitConc /\ [][NextConc]_vars

\* ------------------------------------------------------ views of a call's log
\* the listener invocations of call c, in the order they were made
Invocations(c) == SelectSeq(calls[c].log, LAMBDA e : e.ev = "listener")

\* how many times extension function i was called during call c
TimesInvoked(c, i) == Len(SelectSeq(calls[c].log, LAMBDA e : e.ev = "listener" /\ e.i = i))

\* bridge has finished for call c (it returned or threw)
BridgeFinished(c) == calls[c].pc \in {"returned", "rejected", "done", "failed"}
                        /\ calls[c].outcome # "metadata"

\* some extension function threw during call c
ListenerThrew(c) == \E k \in 1..Len(calls[c].log) : calls[c].log[k].err.kind = "ListenerError"
                        /\ calls[c].log[k].ev = "listener"

TypeOK ==
    /\ isValidateCfResponse \in BOOLEAN
    /\ Len(extensionArg) <= MaxListeners
    /\ \A c \in Calls : calls[c].pc \in {"idle", "sent", "returned", "rejected", "done", "failed"}

\* ------------------------------------------------------------------ claims
Responded(c) == calls[c].outcome = "response"

\* the parsed body of call c carries a boolean success field
CarriesSuccess(c) ==
    /\ calls[c].fetched.cfRes = "object"
    /\ calls[c].fetched.body.success \in {"true", "false"}

\* C1: with integrity validation enabled (isValidateCfResponse = true), a
\* response with a status in [200,300) whose parsed body carries
\* success = false is classified uncertain (null), never true or false.
C1_UncertainOn2xxWithBodyFailure ==
    \A c \in Calls :
        ( /\ Responded(c)
          /\ isValidateCfResponse
          /\ StatusOk(calls[c].fetched.status)
          /\ CarriesSuccess(c)
          /\ calls[c].fetched.body.success = "false" )
        => calls[c].fetched.isCfReqSuccess = "null"

C1_Witness ==
    \E c \in Calls :
        /\ Responded(c) /\ isValidateCfResponse
        /\ calls[c].fetched.status = 200
        /\ CarriesSuccess(c) /\ calls[c].fetched.body.success = "false"
        /\ calls[c].fetched.isCfReqSuccess = "null"

C3_IndicatorMatchesResult ==
    \A c \in Calls : \A k \in 1..Len(calls[c].log) :
        LET e == calls[c].log[k] IN
        e.ev = "listener" =>
            /\ e.ps = (IF e.res.isNull THEN "false" ELSE e.res.isCfReqSuccess)
            /\ EventKind(e.res) = KindOfIndicator(e.ps)
            /\ EventKind(e.res) \in {"success", "err", "unknown"}

C3_Witness ==
    \E c \in Calls :
        /\ \E k \in 1..Len(calls[c].log) :
              calls[c].log[k].ev = "listener" /\ calls[c].log[k].res.isNull
        /\ \E k \in 1..Len(calls[c].log) :
              calls[c].log[k].ev = "listener" /\ calls[c].log[k].ps = "null"

\* C4: when one operation is notified, all N registered listeners are
\* invoked exactly once each, in registration order, even if one throws.
C4_AllListenersInOrder ==
    \A c \in Calls :
        BridgeFinished(c) =>
            /\ Len(Invocations(c)) = Len(extensionArg)
            /\ \A k \in 1..Len(Invocations(c)) : Invocations(c)[k].i = k

\* C5: a throwing listener never changes the outcome: when the fetch
\* produced a result, bridge returns that result and no listener's
\* exception escapes.
C5_ListenerNeverChangesOutcome ==
    \A c \in Calls :
        ( Responded(c) /\ BridgeFinished(c) ) =>
            /\ calls[c].res = calls[c].fetched
            /\ calls[c].err.kind # "ListenerError"
            /\ \A k \in 1..Len(calls[c].log) :
                  calls[c].log[k].ev # "throw"

\* C6: every bridge call produces exactly one notification: each registered
\* listener is invoked exactly once, never zero times and never twice.
C6_ExactlyOneNotification ==
    \A c \in Calls :
        BridgeFinished(c) =>
            \A i \in 1..Len(extensionArg) : TimesInvoked(c, i) = 1

\* C7: when the transport throws, bridge re-throws that error and every
\* listener receives exactly one notification, of kind 'err', with a null
\* result and the serialized error as detail.
C7_TransportFailureNotifiedOnce ==
    \A c \in Calls :
        ( calls[c].outcome = "transport" /\ BridgeFinished(c) ) =>
            /\ calls[c].err = TransportError
            /\ \A i \in 1..Len(extensionArg) : TimesInvoked(c, i) = 1
            /\ \A k \in 1..Len(Invocations(c)) :
                  /\ Invocations(c)[k].ps = "false"
                  /\ Invocations(c)[k].res = NullResult
                  /\ Invocations(c)[k].det = serializeError(TransportError)

C9_NotifyBeforeHandBack ==
    \A c \in Calls : \A k \in 1..Len(calls[c].log) :
        LET e == calls[c].log[k] IN
        /\ e.ev = "return" =>
              \A i \in 1..Len(extensionArg) :
                  \E j \in 1..(k - 1) :
                      /\ calls[c].log[j].ev = "listener"
                      /\ calls[c].log[j].i = i
                      /\ calls[c].log[j].res = e.res
        /\ ( e.ev = "throw" /\ e.err = TransportError ) =>
              \A i \in 1..Len(extensionArg) :
                  \E j \in 1..(k - 1) :
                      /\ calls[c].log[j].ev = "listener"
                      /\ calls[c].log[j].i = i
                      /\ calls[c].log[j].res.isNull
        /\ e.ev \in {"return", "throw"} => k = Len(calls[c].log)

C9_Witness ==
    \E c \in Calls :
        /\ calls[c].pc = "returned"
        /\ Len(extensionArg) = 2
        /\ Len(calls[c].log) = 4
        /\ calls[c].log[4].ev = "return"

\* C10: for a call with validation mode "string" (readKeyValuePair with
\* validation on) the classification is a function of the HTTP status
\* alone: true for a status in [200,300), false otherwise, whatever the body.
C10_StringModeStatusOnly ==
    \A c \in Calls :
        ( /\ Responded(c)
          /\ \/ calls[c].mode = "string"
             \/ calls[c].op = "readKeyValuePair" /\ isValidateCfResponse )
        => calls[c].fetched.isCfReqSuccess
                = BoolStr(StatusOk(calls[c].fetched.status))

C10_Witness ==
    \E c \in Calls :
        /\ Responded(c)
        /\ calls[c].mode = "string"
        /\ calls[c].fetched.status = 200
        /\ calls[c].fetched.body.json
        /\ calls[c].fetched.body.success = "false"
        /\ calls[c].fetched.isCfReqSuccess = "true"

\* C11: a result with isCfReqSuccess = true has an empty or absent cfError,
\* and the error detail handed to the listeners with the indicator true is
\* empty.
C11_SuccessHasNoServiceError ==
    \A c \in Calls :
        /\ ( Responded(c) /\ calls[c].fetched.isCfReqSuccess = "true" )
              => calls[c].fetched.cfError \in {"empty", "null"}
        /\ \A k \in 1..Len(calls[c].log) :
              ( calls[c].log[k].ev = "listener" /\ calls[c].log[k].ps = "true" )
                  => calls[c].log[k].det.val \in {"empty", "null"}

\* the facade operation of call c has finished after bridge returned a result
FacadeFinishedWithResult(c) ==
    /\ calls[c].pc \in {"done", "failed"}
    /\ ~calls[c].res.isNull

\* C12: when the result's isCfReqSuccess is false the facade operation
\* rejects with the WorkersKvError named 'Failed to <command>', carrying the
\* result's cfError when it has one and the HTTP metadata otherwise.
C12_FailureRejectsWithFailedError ==
    \A c \in Calls :
        ( FacadeFinishedWithResult(c) /\ calls[c].res.isCfReqSuccess = "false" )
        => /\ calls[c].pc = "failed"
           /\ calls[c].err = WorkersKvError("Failed",
                                IF Truthy(calls[c].res.cfError) THEN "cfError" ELSE "http")

\* C13: for every facade operation, listNamespaceKeys included, an uncertain
\* result makes the operation reject with an uncertainty error whose title
\* differs from 'Failed to <command>'.
C13_UncertainRejectsWithDistinctError ==
    \A c \in Calls :
        ( FacadeFinishedWithResult(c) /\ calls[c].res.isCfReqSuccess = "null" )
        => /\ calls[c].pc = "failed"
           /\ calls[c].err.kind = "WorkersKvError"
           /\ calls[c].err.title = "Uncertain"

\* the operations whose return type is Promise<boolean>
BooleanOps == {op \in Ops : ReturnMethod(op) = "boolean"}

RequestsSent(c) == Len(SelectSeq(calls[c].log, LAMBDA e : e.ev = "request"))

\* C15: each call makes a single attempt: exactly one HTTP request is issued
\* for a call that reached the transport, and after a transport failure no
\* further request is issued.
C15_SingleAttempt ==
    \A c \in Calls :
        /\ RequestsSent(c) = calls[c].httpSent
        /\ RequestsSent(c) <= 1
        /\ calls[c].outcome \in {"response", "transport"} => RequestsSent(c) = 1
        /\ calls[c].pc = "sent" => RequestsSent(c) = 1

C15_Witness ==
    \E c \in Calls :
        /\ calls[c].outcome = "transport"
        /\ calls[c].pc = "failed"
        /\ calls[c].err = TransportError
        /\ RequestsSent(c) = 1

\* C16: when the parsed body exposes a boolean success field and integrity
\* validation is not enabled, isCfReqSuccess is the body's success value,
\* even when the HTTP status says the opposite.
C16_BodySuccessTrustedWithoutValidation ==
    \A c \in Calls :
        ( Responded(c) /\ ~isValidateCfResponse /\ CarriesSuccess(c) )
        => calls[c].fetched.isCfReqSuccess = calls[c].fetched.body.success

C16_Witness ==
    \E c \in Calls :
        /\ Responded(c) /\ ~isValidateCfResponse /\ CarriesSuccess(c)
        /\ calls[c].fetched.status = 400
        /\ calls[c].fetched.body.success = "true"
        /\ calls[c].fetched.isCfReqSuccess = "true"

BodyErrors(c) ==
    IF calls[c].fetched.cfRes = "object"
          /\ calls[c].fetched.body.errors \in {"empty", "list"}
    THEN calls[c].fetched.body.errors ELSE "null"

\* cfError is the body's errors field or null, and a status-400 response with
\* success:false and a non-empty errors list is a failure carrying that list
ServiceErrorFromBody(c) ==
    /\ calls[c].fetched.cfError = BodyErrors(c)
    /\ ( /\ calls[c].fetched.status = 400
         /\ CarriesSuccess(c)
         /\ calls[c].fetched.body.success = "false"
         /\ calls[c].fetched.body.errors = "list" )
       => ( /\ calls[c].fetched.isCfReqSuccess = "false"
            /\ calls[c].fetched.cfError = "list" )

C19_NoReplayToLateListener ==
    \A s \in 1..Len(subscribers) :
        \A k \in 1..Len(received[s]) :
            /\ received[s][k].no > subscribers[s].since
            /\ received[s][k].kind = subscribers[s].kind

C19_Witness ==
    \E s \in 1..Len(subscribers) : \E c \in Calls :
        /\ BridgeFinished(c)
        /\ subscribers[s].since > 0
        /\ \E k \in 1..Len(calls[c].log) :
              /\ calls[c].log[k].ev = "listener"
              /\ extensionArg[calls[c].log[k].i] = "monitor"
              /\ EventKind(calls[c].log[k].res) = subscribers[s].kind
        /\ received[s] = <<>>

\* C20: concurrent calls on one instance do not interfere: every
\* notification of a call carries that call's own command and that call's
\* own result (or null), and each call returns its own result.
C20_CallsDoNotInterfere ==
    \A c \in DOMAIN calls :
        /\ \A k \in 1..Len(calls[c].log) :
              LET e == calls[c].log[k] IN
              /\ e.cmd.call = c
              /\ e.cmd = calls[c].command
              /\ e.ev \in {"listener", "return"} =>
                    \/ e.res.isNull
                    \/ e.res.req = c /\ e.res = calls[c].fetched
        /\ ~calls[c].res.isNull =>
              /\ calls[c].res.req = c
              /\ calls[c].res = calls[c].fetched

C20_Witness ==
    /\ Len(extensionArg) > 0
    /\ calls[1].pc = "sent"
    /\ calls[2].pc = "done"
    /\ calls[2].op # calls[1].op
    /\ Len(Invocations(2)) = Len(extensionArg)
    /\ \A k \in 1..Len(Invocations(2)) : Invocations(2)[k].res.req = 2

\* C22: the validation mode the facade hands to fetch is always one of
\* "full", "string" and "withoutResult", for every operation and for both
\* settings of isValidateCfResponse, and it is the operation's own method.
C22_HandedModeIsAlwaysAMethod ==
    \A c \in Calls :
        calls[c].mode # "none" =>
            /\ calls[c].mode \in {"full", "string", "withoutResult"}
            /\ calls[c].mode = ValidateMethod(calls[c].op)

\* the body has the shape documented for the validation method
ShapeMatches(method, body) ==
    CASE method = "string" -> TRUE
      [] method = "withoutResult" ->
            body.json /\ body.success \in {"true", "false"}
                      /\ body.errors \in {"empty", "list"}
      [] method = "full" ->
            body.json /\ body.success \in {"true", "false"}
                      /\ body.errors \in {"empty", "list"}
                      /\ body.result \in {"null", "value"}

FetchState(c) ==
    CASE calls[c].outcome = "response"      -> "Classified"
      [] calls[c].outcome = "transport"     -> "TransportFailed"
      [] calls[c].outcome = "serialization" -> "SerializationFailed"
      [] calls[c].pc = "sent"               -> "Sent"
      [] OTHER                              -> "Idle"

\* the fetch of call c returned normally / threw
FetchReturned(c) == ~calls[c].fetched.isNull
FetchThrew(c) == calls[c].fetched.isNull /\ calls[c].pc \in {"rejected", "failed"}

C25_IdenticalPayload ==
    \A c \in Calls :
        /\ calls[c].pc # "idle" /\ calls[c].outcome # "metadata"
                => calls[c].command = Command(calls[c].op, c)
        /\ \A k \in 1..Len(calls[c].log) :
              LET e == calls[c].log[k] IN
              /\ e.cmd = calls[c].command
              /\ ( e.ev \in {"listener", "return"} /\ ~e.res.isNull )
                    => e.res = calls[c].fetched
              /\ \A j \in 1..Len(calls[c].log) :
                    LET d == calls[c].log[j] IN
                    ( /\ e.ev = "listener" /\ d.ev = "listener"
                      /\ d.res.isNull = e.res.isNull )
                    => /\ d.cmd = e.cmd /\ d.res = e.res
                       /\ d.ps = e.ps /\ d.det = e.det
        /\ ~calls[c].res.isNull =>
              /\ calls[c].res = calls[c].fetched
              /\ \A k \in 1..Len(Invocations(c)) :
                    Invocations(c)[k].res = calls[c].res

C25_Witness ==
    \E c \in Calls :
        /\ calls[c].pc = "done"
        /\ Len(extensionArg) = 2
        /\ Len(Invocations(c)) = 2
        /\ Invocations(c)[1].res = calls[c].res
        /\ Invocations(c)[2].res = calls[c].res
        /\ Invocations(c)[1].cmd = Invocations(c)[2].cmd

\* the indices of the extension functions called in one notification of call
\* c (with-result when withResult, otherwise the null-result one), in order
Dispatched(c, withResult) ==
    LET inv == SelectSeq(calls[c].log,
                   LAMBDA e : e.ev = "listener" /\ (e.res.isNull = ~withResult))
    IN  [k \in 1..Len(inv) |-> inv[k].i]

\* C26: the listener list is fixed at construction: no step adds, removes or
\* reorders entries of extensionArg, and every notification of every call
\* dispatches to extensionArg[1], extensionArg[2], ... in that order.
C26_ListenerListFixed ==
    /\ [][extensionArg' = extensionArg]_vars
    /\ [](\A c \in DOMAIN calls : \A w \in BOOLEAN :
            /\ Len(Dispatched(c, w)) <= Len(extensionArg)
            /\ \A k \in 1..Len(Dispatched(c, w)) : Dispatched(c, w)[k] = k)

C26_Witness ==
    /\ Len(extensionArg) = 2
    /\ calls[1].pc = "done" /\ calls[2].pc = "failed"
    /\ calls[2].outcome = "transport"
    /\ Dispatched(1, TRUE) = <<1, 2>>
    /\ Dispatched(2, FALSE) = <<1, 2>>

\* C27: writeKeyValuePair or writeKeyValuePairMeta called with both
\* expiration and expiration_ttl only logs a warning and proceeds: the call
\* is not rejected for it, exactly one request is sent, and the query
\* parameters forwarded are the caller's urlParam, both fields present.
C27_BothExpiriesWarnAndProceed ==
    \A c \in Calls :
        /\ calls[c].warned <=> ( TakesExpiry(calls[c].op) /\ calls[c].urlParam = "both" )
        /\ ( TakesExpiry(calls[c].op) /\ calls[c].urlParam = "both" ) =>
              /\ calls[c].pc # "idle"
              /\ calls[c].pc = "failed" =>
                    calls[c].outcome \in {"response", "transport", "serialization", "metadata"}
              /\ calls[c].outcome \notin {"serialization", "metadata"} =>
                    /\ RequestsSent(c) = 1
                    /\ calls[c].params = calls[c].urlParam
                    /\ calls[c].params = "both"

C27_Witness ==
    \E c \in Calls :
        /\ calls[c].op = "writeKeyValuePairMeta"
        /\ calls[c].urlParam = "both"
        /\ calls[c].warned
        /\ calls[c].params = "both"
        /\ RequestsSent(c) = 1
        /\ calls[c].pc = "done"

\* C28: on transport failure the error that reaches the caller is the
\* original error thrown by the fetch, whatever the listeners do: a listener
\* that throws while being notified of the failure does not replace it.
C28_OriginalErrorReachesCaller ==
    \A c \in Calls :
        ( calls[c].outcome = "transport" /\ calls[c].pc \in {"rejected", "failed"} )
        => /\ calls[c].err = TransportError
           /\ \A k \in 1..Len(calls[c].log) :
                 calls[c].log[k].ev = "throw" => calls[c].log[k].err = TransportError

\* C29: once fetch has returned a result without throwing, the facade
\* operation either returns a value or rejects with a WorkersKvError and with
\* no other error type, for every result shape (cfRes null or a plain string
\* included) and for listNamespaceKeys as well.
C29_OnlyWorkersKvErrorAfterFetchReturned ==
    \A c \in Calls :
        ( Responded(c) /\ calls[c].pc \in {"done", "failed"} )
        => \/ calls[c].pc = "done" /\ calls[c].err = NoError
           \/ calls[c].pc = "failed" /\ calls[c].err.kind = "WorkersKvError"

\* C30: constructing WorkersKv with accountEmail, accountId or globalApiKey
\* undefined throws WorkersKvError 'Missing Critical Authentication Info' and
\* creates no instance, so every instance holds three defined credentials;
\* no operation changes the stored credentials or isValidateCfResponse.
C30_CredentialsCheckedAndKept ==
    /\ [](/\ ( /\ constructed.state # "no"
               /\ \/ constructed.args.accountEmail = "undefined"
                  \/ constructed.args.accountId = "undefined"
                  \/ constructed.args.globalApiKey = "undefined" )
             => /\ constructed.state = "threw"
                /\ constructed.err.kind = "WorkersKvError"
                /\ constructed.err.title = "Missing Critical Authentication Info"
          /\ constructed.state # "yes"
             => /\ cfAuth = NoAuth
                /\ \A c \in Calls : calls[c] = IdleCall
          /\ constructed.state = "yes"
             => /\ cfAuth = constructed.args
                /\ cfAuth.accountEmail # "undefined"
                /\ cfAuth.accountId # "undefined"
                /\ cfAuth.globalApiKey # "undefined")
    /\ [][constructed.state # "no"
            => UNCHANGED <<cfAuth, isValidateCfResponse, constructed>>]_vars

C30_Witness ==
    /\ constructed.state = "threw"
    /\ constructed.args.accountEmail = "undefined"
    /\ constructed.args.accountId = "text"
    /\ constructed.args.globalApiKey = "text"
    /\ constructed.err.title = "Missing Critical Authentication Info"
    /\ cfAuth = NoAuth

====
